---- MODULE Spec2Model ----
(***************************************************************************)
(* Model of the kilocode-ai-proxy request handlers.                        *)
(*                                                                         *)
(* The repository holds three programs:                                    *)
(*   - src/server.js lines 1-132   : POST /api/ai with the /specify.*      *)
(*                                   pipeline trigger   (endpoint "ai")    *)
(*   - src/unnamed/part_000        : POST /api/ai, chat completion only    *)
(*                                                      (endpoint "ai0")   *)
(*   - src/server.js lines 161-379 : POST /generate and POST /save         *)
(*                                   (endpoints "generate" and "save")     *)
(*                                                                         *)
(* One behaviour follows one inbound request through its handler.  Every   *)
(* `await` of an upstream call is a step boundary: the call is issued by   *)
(* one action (appended to `calls`) and its outcome is consumed by the     *)
(* next action (appended to `replies`), so that other writers of the       *)
(* remote repository can interleave between the two.                       *)
(*                                                                         *)
(* JavaScript strings the code inspects or builds are sequences of pieces  *)
(* (single characters for prompts, paths and file contents; whole          *)
(* literals for the fixed texts the code concatenates around them); the    *)
(* empty string is << >>.  Opaque texts (error messages, ids) are atoms.   *)
(***************************************************************************)
EXTENDS Integers, Sequences, FiniteSets, TLC

VARIABLES
    cfg,            \* process.env as read once at startup
    endpoint,       \* which handler serves the request ("none" before it arrives)
    req,            \* req.body
    pc,             \* position of the handler: "idle", an await point, "done"
    calls,          \* upstream calls issued so far, in order
    replies,        \* outcomes of the upstream calls, in order
    responses,      \* responses sent to the client (res.status().json())
    step,           \* /api/ai: const step
    fileCandidates, \* /generate: const fileCandidates
    fileIdx,        \* /generate: position of the for..of loop
    repoFiles,      \* /generate: const repoFiles (insertion-ordered object)
    readResults,    \* /generate: completion of each getFileContentFromRepo call
    oldObjectId,    \* pushFileToRepo: const oldObjectId of the current attempt
    head,           \* upstream: commit id at the head of refs/heads/main
    exists          \* upstream: whether the pushed path exists on the branch

vars == <<cfg, endpoint, req, pc, calls, replies, responses, step,
          fileCandidates, fileIdx, repoFiles, readResults, oldObjectId,
          head, exists>>

-----------------------------------------------------------------------------
(* Bounds of the model *)

\* longest text that follows the prefix of an enumerated prompt
MaxSuffixLen == 2

\* number of times other writers move refs/heads/main during one request
MaxMoves == 2

-----------------------------------------------------------------------------
(* JavaScript values *)

Undefined == [t |-> "undefined", s |-> << >>]

Str(s) == [t |-> "string", s |-> s]

\* a truthy value that is not a string (a non-zero number in the JSON body)
Num == [t |-> "number", s |-> << >>]

Truthy(v) == (v.t = "string" /\ v.s # << >>) \/ v.t = "number"

IsString(v) == v.t = "string"

\* `${v}` in a template literal
ToStr(v) == IF v.t = "undefined" THEN <<"undefined">> ELSE v.s

Min(a, b) == IF a < b THEN a ELSE b

-----------------------------------------------------------------------------
(* String operations of POST /api/ai (src/server.js) *)

SpecifyPrefix == <<"/", "s", "p", "e", "c", "i", "f", "y", ".">>

StartsWithAnywhere(s, p) ==
    \E i \in 1..Len(s) : i + Len(p) - 1 <= Len(s) /\ SubSeq(s, i, i + Len(p) - 1) = p

\* String.prototype.startsWith
StartsWith(s, p) == Len(s) >= Len(p) /\ SubSeq(s, 1, Len(p)) = p

\* String.prototype.split(".") : the segments between the separators
RECURSIVE SplitFrom(_, _, _)
SplitFrom(s, cur, i) ==
    IF i > Len(s) THEN <<cur>>
    ELSE IF s[i] = "." THEN <<cur>> \o SplitFrom(s, << >>, i + 1)
    ELSE SplitFrom(s, Append(cur, s[i]), i + 1)

SplitDot(s) == SplitFrom(s, << >>, 1)

\* arr[i] of a JavaScript array (0-based; undefined past the end)
ElemAt(arr, i) == IF i + 1 <= Len(arr) THEN Str(arr[i + 1]) ELSE Undefined

StepOfLast(prompt) == ElemAt(SplitDot(prompt), Len(SplitDot(prompt)) - 1)

\* const step = prompt.split(".")[1]
StepOf(prompt) == ElemAt(SplitDot(prompt), 1)

-----------------------------------------------------------------------------
(* Upstream bodies seen through fetch (POST /api/ai, both programs) *)

FetchBody(json, choices, content, id) ==
    [json |-> json, choices |-> choices, content |-> content, id |-> id]

\* a body resp.json() rejects
NotJson == FetchBody(FALSE, "missing", << >>, "none")

\* the value of `{}`
EmptyObj == FetchBody(TRUE, "missing", << >>, "none")

FetchBodies ==
    { NotJson,
      EmptyObj,
      FetchBody(TRUE, "empty", << >>, "none"),
      FetchBody(TRUE, "one", <<"hi there">>, "none"),
      FetchBody(TRUE, "one", << >>, "none"),
      FetchBody(TRUE, "missing", << >>, "42") }

Ok(status) == status \in 200..299

\* outcomes of `await fetch(...)`: the promise rejects, or a response arrives
FetchOutcomes ==
    { [kind |-> "reject", status |-> 0, body |-> NotJson] }
    \cup [kind : {"response"}, status : {200, 401, 500}, body : FetchBodies]

\* resp.json().catch(() => ({}))
JsonOrEmpty(body) == IF body.json THEN body ELSE EmptyObj

\* aiData?.choices?.[0]?.message?.content || ""
FirstContentOrEmpty(data) == IF data.choices = "one" THEN data.content ELSE << >>

\* data?.id || null
IdOrNull(data) == IF data.id = "none" THEN "null" ELSE data.id

-----------------------------------------------------------------------------
(* Requests *)

Chars == {".", "a", "b"}

RECURSIVE SeqsUpTo(_)
SeqsUpTo(n) ==
    IF n = 0 THEN { << >> }
    ELSE LET shorter == SeqsUpTo(n - 1)
         IN  shorter \cup { Append(s, c) : s \in shorter, c \in Chars }

PromptHeads ==
    { << >>,
      SpecifyPrefix,
      SubSeq(SpecifyPrefix, 1, 8),
      <<"a">> \o SpecifyPrefix,
      <<"/", "s", ".">> }

Prompts == { h \o t : h \in PromptHeads, t \in SeqsUpTo(MaxSuffixLen) }

AiBodies == { [prompt |-> p] : p \in {Undefined, Num} \cup { Str(s) : s \in Prompts } }

-----------------------------------------------------------------------------
(* Responses *)

Send(status, body) == Append(responses, [status |-> status, body |-> body])

Issue(call) == Append(calls, call)

\* the outcome of a call, with the branch head at the time the upstream served it
Reply(client, o) == Append(replies, [client |-> client, head |-> head] @@ o)

ChatCall(model, messages) ==
    [client |-> "chat", model |-> model, messages |-> messages]

PipelineCall(s) ==
    [client |-> "pipeline", ref |-> "refs/heads/main", specStep |-> s]

UserMessage(content) == [role |-> "user", content |-> content]

SystemMessage(content) == [role |-> "system", content |-> content]

\* err.toString(): the text of an error (never an upstream body)
ErrText(text) == [errorString |-> text]

-----------------------------------------------------------------------------
\* process.env: LLM_PROVIDER and which credentials are set
Env(provider, openrouterKey, openaiKey, azureEndpoint) ==
    [provider |-> provider, openrouterKey |-> openrouterKey,
     openaiKey |-> openaiKey, azureEndpoint |-> azureEndpoint]

Configs ==
    { Env("openrouter", TRUE, TRUE, TRUE),
      Env("openrouter", FALSE, TRUE, TRUE),
      Env("openai", TRUE, TRUE, TRUE),
      Env("openai", TRUE, FALSE, TRUE),
      Env("azure", TRUE, TRUE, TRUE),
      Env("azure", TRUE, TRUE, FALSE),
      Env("azure", TRUE, FALSE, TRUE),
      Env("other", TRUE, TRUE, TRUE) }

Init ==
    /\ cfg \in Configs
    /\ endpoint = "none"
    /\ req = [prompt |-> Undefined]
    /\ pc = "idle"
    /\ calls = << >>
    /\ replies = << >>
    /\ responses = << >>
    /\ step = Undefined
    /\ fileCandidates = << >>
    /\ fileIdx = 0
    /\ repoFiles = << >>
    /\ readResults = << >>
    /\ oldObjectId = 0
    /\ head = 0
    /\ exists \in BOOLEAN

Locals == <<step, fileCandidates, fileIdx, repoFiles, readResults, oldObjectId>>

Upstream == <<head, exists>>

-----------------------------------------------------------------------------
(* POST /api/ai of src/server.js *)

\* from the arrival of the request to the first await (or the response)
AiReceive ==
    /\ pc = "idle"
    /\ \E b \in AiBodies :
        /\ endpoint' = "ai"
        /\ req' = b
        /\ IF ~Truthy(b.prompt)
           THEN /\ responses' = Send(400, [error |-> "No prompt provided"])
                /\ pc' = "done"
                /\ UNCHANGED <<calls, step>>
           ELSE IF ~IsString(b.prompt)
           THEN \* prompt.startsWith is not a function: caught by the handler
                /\ responses' = Send(500, [error |-> "prompt.startsWith is not a function"])
                /\ pc' = "done"
                /\ UNCHANGED <<calls, step>>
           ELSE IF StartsWith(b.prompt.s, SpecifyPrefix)
           THEN /\ step' = StepOf(b.prompt.s)
                /\ calls' = Issue(PipelineCall(StepOf(b.prompt.s)))
                /\ pc' = "ai_pipeline"
                /\ UNCHANGED responses
           ELSE /\ calls' = Issue(ChatCall("meta-llama/llama-3.1-8b-instruct",
                                           <<UserMessage(b.prompt)>>))
                /\ pc' = "ai_chat"
                /\ UNCHANGED <<responses, step>>
    /\ UNCHANGED <<cfg, replies, fileCandidates, fileIdx, repoFiles, readResults,
                   oldObjectId, head, exists>>

\* await fetch(pipeline run) ... return res.json / res.status(500).json
AiPipelineReturn ==
    /\ pc = "ai_pipeline"
    /\ \E o \in FetchOutcomes :
        /\ replies' = Reply("pipeline", o)
        /\ IF o.kind = "reject"
           THEN responses' = Send(500, [error |-> "fetch failed"])
           ELSE LET data == JsonOrEmpty(o.body)
                IN  IF ~Ok(o.status)
                    THEN responses' = Send(500, [error |-> "Pipeline failed",
                                                 details |-> data])
                    ELSE responses' =
                            Send(200, [output |-> <<"Pipeline triggered for step: ">>
                                                    \o ToStr(step),
                                       pipelineRunId |-> IdOrNull(data)])
    /\ pc' = "done"
    /\ UNCHANGED <<cfg, endpoint, req, calls, Locals, Upstream>>

\* await fetch(chat completions) ... return res.json / res.status(500).json
AiChatReturn ==
    /\ pc = "ai_chat"
    /\ \E o \in FetchOutcomes :
        /\ replies' = Reply("chat", o)
        /\ IF o.kind = "reject"
           THEN responses' = Send(500, [error |-> "fetch failed"])
           ELSE LET aiData == JsonOrEmpty(o.body)
                IN  IF ~Ok(o.status)
                    THEN responses' = Send(500, [error |-> "OpenRouter request failed",
                                                 details |-> aiData])
                    ELSE responses' = Send(200, [output |-> FirstContentOrEmpty(aiData)])
    /\ pc' = "done"
    /\ UNCHANGED <<cfg, endpoint, req, calls, Locals, Upstream>>

-----------------------------------------------------------------------------
(* POST /api/ai of src/unnamed/part_000 *)

Ai0Receive ==
    /\ pc = "idle"
    /\ \E b \in AiBodies :
        /\ endpoint' = "ai0"
        /\ req' = b
        /\ IF ~Truthy(b.prompt)
           THEN /\ responses' = Send(400, [error |-> "Prompt is required"])
                /\ pc' = "done"
                /\ UNCHANGED calls
           ELSE /\ calls' = Issue(ChatCall("meta-llama/llama-3.1-8b-instruct",
                                           <<UserMessage(b.prompt)>>))
                /\ pc' = "ai0_chat"
                /\ UNCHANGED responses
    /\ UNCHANGED <<cfg, replies, Locals, Upstream>>

\* the same continuation with a body that is not JSON left uncaught
Ai0ChatReturnUncaught ==
    /\ pc = "ai0_chat"
    /\ \E o \in FetchOutcomes :
        /\ replies' = Reply("chat", o)
        /\ IF o.kind = "reject"
           THEN responses' = Send(500, [error |-> "Proxy server failed",
                                        details |-> ErrText("TypeError: fetch failed")])
           ELSE IF ~o.body.json
           THEN UNCHANGED responses
           ELSE IF o.body.choices # "one"
           THEN responses' = Send(500, [error |-> "Invalid OpenRouter response",
                                        raw |-> o.body])
           ELSE responses' = Send(200, [output |-> o.body.content])
    /\ pc' = "done"
    /\ UNCHANGED <<cfg, endpoint, req, calls, Locals, Upstream>>

\* await fetch ... await apiRes.json() ... res.json / res.status(500).json
Ai0ChatReturn ==
    /\ pc = "ai0_chat"
    /\ \E o \in FetchOutcomes :
        /\ replies' = Reply("chat", o)
        /\ IF o.kind = "reject"
           THEN responses' = Send(500, [error |-> "Proxy server failed",
                                        details |-> ErrText("TypeError: fetch failed")])
           ELSE IF ~o.body.json
           THEN responses' = Send(500, [error |-> "Proxy server failed",
                                        details |-> ErrText("SyntaxError: Unexpected token")])
           ELSE IF o.body.choices # "one"
           THEN responses' = Send(500, [error |-> "Invalid OpenRouter response",
                                        raw |-> o.body])
           ELSE responses' = Send(200, [output |-> o.body.content])
    /\ pc' = "done"
    /\ UNCHANGED <<cfg, endpoint, req, calls, Locals, Upstream>>

-----------------------------------------------------------------------------
(* POST /generate of src/server.js: repo reads, prompt building, callLLM *)

Null == [t |-> "null", s |-> << >>]

\* a JavaScript array, or undefined when the field is missing
Arr(a) == [t |-> "array", a |-> a]

NoArr == [t |-> "undefined", a |-> << >>]

PathA == <<"/", "a.md">>

PathB == <<"/", "d", "/", "b.md">>

\* the four default paths of fileCandidates
DefaultFiles ==
    << <<"/", ".specify", "/", "constitution.md">>,
       <<"/", ".specify", "/", "plan.md">>,
       <<"/", ".specify", "/", "spec.md">>,
       <<"/", ".specify", "/", "tasks.md">> >>

GenerateBodies ==
    [command : {Undefined, Str(<< >>), Str(<<"/specify.plan">>)},
     prompt : {Undefined, Str(<< >>), Str(<<"Add an API">>)},
     files : {NoArr, Arr(<< >>), Arr(<<PathA>>), Arr(<<PathA, PathB>>),
              Arr(<<PathB, PathA, PathB>>)}]

\* if (!command || !userPrompt) return res.status(400)
GenerateInvalid(b) == ~Truthy(b.command) \/ ~Truthy(b.prompt)

\* files && files.length ? files : [defaults]
FileCandidatesOf(files) ==
    IF files.t = "array" /\ Len(files.a) > 0 THEN files.a ELSE DefaultFiles

\* f.replace(/\//g, '')
StripSlashes(f) == SelectSeq(f, LAMBDA piece : piece # "/")

\* outcomes of azdoAxios.get('/items'): no response at all, or a response whose
\* data.content is the given text (<< >> when it is missing or empty)
ItemsBody(content) == [content |-> content]

ItemsOutcomes ==
    { [kind |-> "network", status |-> 0, body |-> ItemsBody(<< >>)] }
    \cup [kind : {"response"}, status : {200},
          body : {ItemsBody(<<"x", "y", "z">>), ItemsBody(<< >>)}]
    \cup [kind : {"response"}, status : {404, 500}, body : {ItemsBody(<< >>)}]

Returned(v) == [threw |-> FALSE, value |-> v]

Threw == [threw |-> TRUE, value |-> Undefined]

\* getFileContentFromRepo with no special case for 404
GetFileContentFromRepoNo404(o) ==
    IF o.kind = "response" /\ Ok(o.status)
    THEN IF o.body.content # << >> THEN Returned(Str(o.body.content)) ELSE Returned(Null)
    ELSE Threw

\* getFileContentFromRepo(path), given the outcome of its GET /items
GetFileContentFromRepo(o) ==
    IF o.kind = "response" /\ Ok(o.status)
    THEN IF o.body.content # << >> THEN Returned(Str(o.body.content)) ELSE Returned(Null)
    ELSE IF o.kind = "response" /\ o.status = 404 THEN Returned(Null)
    ELSE Threw

\* the try/catch around the read in the loop: c || '' , or '' when it threw
RecordedContent(r) ==
    IF r.threw THEN << >>
    ELSE IF Truthy(r.value) THEN r.value.s ELSE << >>

\* repoFiles[name] = content on an insertion-ordered object
RECURSIVE SetKey(_, _, _)
SetKey(obj, name, content) ==
    IF obj = << >> THEN << [name |-> name, content |-> content] >>
    ELSE IF Head(obj).name = name
         THEN << [name |-> name, content |-> content] >> \o Tail(obj)
         ELSE << Head(obj) >> \o SetKey(Tail(obj), name, content)

\* the limit of content.substring(0, 50_000)
MaxFileChars == 50000

Truncate(content) == SubSeq(content, 1, Min(Len(content), MaxFileChars))

RECURSIVE FileBlocks(_)
FileBlocks(files) ==
    IF files = << >> THEN << >>
    ELSE LET f == Head(files)
         IN  <<"--- BEGIN FILE: ">> \o f.name \o <<" ---\n">>
             \o (IF f.content # << >> THEN Truncate(f.content) ELSE <<"(empty)">>)
             \o <<"\n--- END FILE: ">> \o f.name \o <<" ---\n\n">>
             \o FileBlocks(Tail(files))

\* buildSpeckitPrompt(userPrompt, repoFiles)
BuildSpeckitPrompt(userPrompt, files) ==
    <<"You are Speckit AI. The user requested: ">> \o userPrompt \o <<"\n\n">>
    \o <<"Project files provided below. Use them as context and follow the project constitution rules when generating output.\n\n">>
    \o FileBlocks(files)
    \o <<"Produce the requested Speckit output. Use headings, numbered lists, and be concise. If you need to create a new file, output only the file content with a top line \"FILE: <path>\" so the caller can detect it.">>

\* callLLM before its request: the error it throws, or "none"
LLMConfigError(env) ==
    IF env.provider = "openrouter"
    THEN IF ~env.openrouterKey THEN "Missing OPENROUTER_API_KEY" ELSE "none"
    ELSE IF env.provider = "openai"
    THEN IF ~env.openaiKey THEN "Missing OPENAI_API_KEY" ELSE "none"
    ELSE IF env.provider = "azure"
    THEN IF ~env.azureEndpoint \/ ~env.openaiKey
         THEN "Missing Azure OpenAI config" ELSE "none"
    ELSE "Unknown LLM_PROVIDER"

\* the model named in callLLM's request body ("none": the azure body names none)
LLMModel(env) == IF env.provider = "azure" THEN "none" ELSE "gpt-4o-mini"

LLMMessages(prompt) ==
    << SystemMessage(<<"You are Speckit AI - follow the project constitution and produce clear, structured outputs.">>),
       UserMessage(Str(prompt)) >>

ItemsCall(path) == [client |-> "items", path |-> path, includeContent |-> TRUE]

GenerateReceive ==
    /\ pc = "idle"
    /\ \E b \in GenerateBodies :
        /\ endpoint' = "generate"
        /\ req' = b
        /\ IF GenerateInvalid(b)
           THEN /\ responses' = Send(400, [error |-> "command and prompt are required"])
                /\ pc' = "done"
                /\ UNCHANGED <<calls, fileCandidates, fileIdx>>
           ELSE /\ fileCandidates' = FileCandidatesOf(b.files)
                /\ fileIdx' = 1
                /\ calls' = Issue(ItemsCall(FileCandidatesOf(b.files)[1]))
                /\ pc' = "gen_read"
                /\ UNCHANGED responses
    /\ UNCHANGED <<cfg, replies, step, repoFiles, readResults, oldObjectId, Upstream>>

\* one turn of the for..of loop from the completion of the read; after the
\* last file: buildSpeckitPrompt and callLLM up to its request
GenerateReadReturn ==
    /\ pc = "gen_read"
    /\ \E o \in ItemsOutcomes :
        LET r == GetFileContentFromRepo(o)
            f == fileCandidates[fileIdx]
            files == SetKey(repoFiles, StripSlashes(f), RecordedContent(r))
            builtPrompt == BuildSpeckitPrompt(req.command.s \o <<": ">> \o req.prompt.s,
                                              files)
        IN  /\ replies' = Reply("items", o)
            /\ readResults' = Append(readResults, r)
            /\ repoFiles' = files
            /\ IF fileIdx < Len(fileCandidates)
               THEN /\ fileIdx' = fileIdx + 1
                    /\ calls' = Issue(ItemsCall(fileCandidates[fileIdx + 1]))
                    /\ pc' = "gen_read"
                    /\ UNCHANGED responses
               ELSE IF LLMConfigError(cfg) # "none"
               THEN /\ responses' = Send(500, [error |-> LLMConfigError(cfg)])
                    /\ pc' = "done"
                    /\ UNCHANGED <<calls, fileIdx>>
               ELSE /\ calls' = Issue(ChatCall(LLMModel(cfg), LLMMessages(builtPrompt)))
                    /\ pc' = "gen_llm"
                    /\ UNCHANGED <<responses, fileIdx>>
    /\ UNCHANGED <<cfg, endpoint, req, step, fileCandidates, oldObjectId, Upstream>>

\* await axios.post(chat completions); return resp.data.choices[0].message.content;
\* res.json({ output: result }) or the handler's catch
GenerateLLMReturn ==
    /\ pc = "gen_llm"
    /\ \E o \in FetchOutcomes :
        /\ replies' = Reply("chat", o)
        /\ IF o.kind = "reject"
           THEN responses' = Send(500, [error |-> "Network Error"])
           ELSE IF ~Ok(o.status)
           THEN responses' = Send(500, [error |-> "Request failed with status code"])
           ELSE IF o.body.choices # "one"
           THEN responses' = Send(500, [error |-> "TypeError: Cannot read properties of undefined"])
           ELSE responses' = Send(200, [output |-> o.body.content])
    /\ pc' = "done"
    /\ UNCHANGED <<cfg, endpoint, req, calls, Locals, Upstream>>

-----------------------------------------------------------------------------
(* POST /save of src/server.js: pushFileToRepo *)

SaveBodies ==
    [path : {Undefined, Str(<< >>), Str(PathA)},
     content : {Undefined, Num, Str(<< >>), Str(<<"a", "b", "c">>)},
     commitMessage : {Undefined, Str(<<"my commit">>)}]

\* if (!path || typeof content !== 'string') return res.status(400)
SaveInvalidBoth(b) == ~Truthy(b.path) /\ ~IsString(b.content)

SaveInvalid(b) == ~Truthy(b.path) \/ ~IsString(b.content)

\* commitMessage || 'Speckit AI update'
CommitMessageOf(b) ==
    IF Truthy(b.commitMessage) THEN b.commitMessage.s ELSE <<"Speckit AI update">>

\* String.prototype.toLowerCase on the words the upstream messages are made of
Lower(w) ==
    IF w = "Already" THEN "already" ELSE IF w = "Exists" THEN "exists" ELSE w

\* /already exists/i.test(message): the two words, adjacent, in any case
MatchesAlreadyExists(message) ==
    \E i \in 1..(Len(message) - 1) :
        Lower(message[i]) = "already" /\ Lower(message[i + 1]) = "exists"

\* texts of err.response.data.message (<< >>: the error body carries none)
MsgExists == <<"The", "path", "Already", "Exists", "in", "the", "tree">>

MsgStale == <<"The", "ref", "has", "already", "been", "updated", "by", "another", "client">>

MsgOther == <<"Unauthorized">>

AxiosBody(list, message) == [list |-> list, message |-> message]

\* GET /refs: no response, an error response, or 2xx whose data is a non-empty
\* list (its first objectId is the head), an empty list, missing, or no array
RefsOutcomes ==
    { [kind |-> "network", status |-> 0, body |-> AxiosBody("missing", << >>)] }
    \cup [kind : {"response"}, status : {200},
          body : { AxiosBody(l, << >>) : l \in {"list", "empty", "missing", "object"} }]
    \cup [kind : {"response"}, status : {500},
          body : { AxiosBody("missing", m) : m \in {<< >>, MsgOther, MsgExists} }]

\* POST /pushes as the repository host answers it.  A push names the commit it
\* was built on (oldObjectId): it is refused when the branch head is another
\* commit, when it adds a path that exists, or edits one that does not; any
\* request can also fail for reasons of the host's own.
PushOutcomes(old, changeType, curHead, curExists) ==
    { [kind |-> "network", status |-> 0, body |-> AxiosBody("missing", << >>)],
      [kind |-> "response", status |-> 500, body |-> AxiosBody("missing", << >>)],
      [kind |-> "response", status |-> 401, body |-> AxiosBody("missing", MsgOther)] }
    \cup
    ( IF old # curHead
      THEN { [kind |-> "response", status |-> 409, body |-> AxiosBody("missing", MsgStale)] }
      ELSE IF changeType = "add" /\ curExists
      THEN { [kind |-> "response", status |-> 400, body |-> AxiosBody("missing", MsgExists)] }
      ELSE IF changeType = "edit" /\ ~curExists
      THEN { [kind |-> "response", status |-> 400, body |-> AxiosBody("missing", MsgOther)] }
      ELSE { [kind |-> "response", status |-> 201, body |-> AxiosBody("push", << >>)] } )

\* the catch of pushFileToRepo retrying after any error response
RetriesAsEditAlways(o) == o.kind = "response" /\ ~Ok(o.status)

\* err.response && err.response.data && err.response.data.message
\*   && /already exists/i.test(err.response.data.message)
RetriesAsEdit(o) ==
    /\ o.kind = "response"
    /\ ~Ok(o.status)
    /\ o.body.message # << >>
    /\ MatchesAlreadyExists(o.body.message)

\* err.message || String(err) of a failed axios request
AxiosErrorMessage(o) ==
    IF o.kind = "network" THEN "Network Error" ELSE "Request failed with status code"

RefsCall == [client |-> "refs", filter |-> "heads/main"]

PushCall(changeType, old, path, content, comment) ==
    [client |-> "pushes", ref |-> "refs/heads/main", oldObjectId |-> old,
     comment |-> comment, changeType |-> changeType, path |-> path,
     content |-> content, contentType |-> "rawtext"]

\* the push body of the first attempt
AddPush(old, path, content, comment) == PushCall("add", old, path, content, comment)

EditPushDefaultComment(old, path, content, comment) ==
    PushCall("edit", old, path, content, <<"Speckit AI: update">>)

\* the push body of the retry
EditPush(old, path, content, comment) == PushCall("edit", old, path, content, comment)

SaveAwaits == {"save_refs", "save_push", "save_refs2", "save_push2"}

SaveReceive ==
    /\ pc = "idle"
    /\ \E b \in SaveBodies :
        /\ endpoint' = "save"
        /\ req' = b
        /\ IF SaveInvalid(b)
           THEN /\ responses' = Send(400, [error |-> "path and content required"])
                /\ pc' = "done"
                /\ UNCHANGED calls
           ELSE /\ calls' = Issue(RefsCall)
                /\ pc' = "save_refs"
                /\ UNCHANGED responses
    /\ UNCHANGED <<cfg, replies, Locals, Upstream>>

\* pushFileToRepo: await GET /refs in the try block, up to the POST /pushes
SaveRefsReturn ==
    /\ pc = "save_refs"
    /\ \E o \in RefsOutcomes :
        /\ replies' = Reply("refs", o)
        /\ IF o.kind = "response" /\ Ok(o.status)
           THEN IF o.body.list \in {"missing", "empty"}
                THEN /\ responses' = Send(500, [error |-> "Cannot find main branch refs"])
                     /\ pc' = "done"
                     /\ UNCHANGED <<calls, oldObjectId>>
                ELSE IF o.body.list = "object"
                THEN /\ responses' = Send(500, [error |-> "TypeError: Cannot read properties of undefined"])
                     /\ pc' = "done"
                     /\ UNCHANGED <<calls, oldObjectId>>
                ELSE /\ oldObjectId' = head
                     /\ calls' = Issue(AddPush(head, req.path.s, req.content.s,
                                               CommitMessageOf(req)))
                     /\ pc' = "save_push"
                     /\ UNCHANGED responses
           ELSE IF RetriesAsEdit(o)
           THEN /\ calls' = Issue(RefsCall)
                /\ pc' = "save_refs2"
                /\ UNCHANGED <<responses, oldObjectId>>
           ELSE /\ responses' = Send(500, [error |-> AxiosErrorMessage(o)])
                /\ pc' = "done"
                /\ UNCHANGED <<calls, oldObjectId>>
    /\ UNCHANGED <<cfg, endpoint, req, step, fileCandidates, fileIdx, repoFiles,
                   readResults, Upstream>>

\* pushFileToRepo: await POST /pushes (add); return, retry as edit, or throw
SavePushReturn ==
    /\ pc = "save_push"
    /\ \E o \in PushOutcomes(oldObjectId, "add", head, exists) :
        /\ replies' = Reply("pushes", o)
        /\ IF o.kind = "response" /\ Ok(o.status)
           THEN /\ responses' = Send(200, [success |-> TRUE, push |-> o.body])
                /\ pc' = "done"
                /\ head' = head + 1
                /\ exists' = TRUE
                /\ UNCHANGED calls
           ELSE IF RetriesAsEdit(o)
           THEN /\ calls' = Issue(RefsCall)
                /\ pc' = "save_refs2"
                /\ UNCHANGED <<responses, Upstream>>
           ELSE /\ responses' = Send(500, [error |-> AxiosErrorMessage(o)])
                /\ pc' = "done"
                /\ UNCHANGED <<calls, Upstream>>
    /\ UNCHANGED <<cfg, endpoint, req, Locals>>

\* pushFileToRepo, catch block: await GET /refs, up to the POST /pushes (edit)
SaveRefs2Return ==
    /\ pc = "save_refs2"
    /\ \E o \in RefsOutcomes :
        /\ replies' = Reply("refs", o)
        /\ IF o.kind = "response" /\ Ok(o.status)
           THEN IF o.body.list # "list"
                THEN /\ responses' = Send(500, [error |-> "TypeError: Cannot read properties of undefined"])
                     /\ pc' = "done"
                     /\ UNCHANGED <<calls, oldObjectId>>
                ELSE /\ oldObjectId' = head
                     /\ calls' = Issue(EditPush(head, req.path.s, req.content.s,
                                                CommitMessageOf(req)))
                     /\ pc' = "save_push2"
                     /\ UNCHANGED responses
           ELSE /\ responses' = Send(500, [error |-> AxiosErrorMessage(o)])
                /\ pc' = "done"
                /\ UNCHANGED <<calls, oldObjectId>>
    /\ UNCHANGED <<cfg, endpoint, req, step, fileCandidates, fileIdx, repoFiles,
                   readResults, Upstream>>

\* pushFileToRepo, catch block: await POST /pushes (edit); return or throw
SavePush2Return ==
    /\ pc = "save_push2"
    /\ \E o \in PushOutcomes(oldObjectId, "edit", head, exists) :
        /\ replies' = Reply("pushes", o)
        /\ IF o.kind = "response" /\ Ok(o.status)
           THEN /\ responses' = Send(200, [success |-> TRUE, push |-> o.body])
                /\ head' = head + 1
                /\ exists' = TRUE
           ELSE /\ responses' = Send(500, [error |-> AxiosErrorMessage(o)])
                /\ UNCHANGED Upstream
    /\ pc' = "done"
    /\ UNCHANGED <<cfg, endpoint, req, calls, Locals>>

\* another client of the repository pushes to refs/heads/main while the
\* request is in flight; its commit may create or delete the path
OtherWriterPush ==
    /\ pc \in SaveAwaits
    /\ head < MaxMoves
    /\ head' = head + 1
    /\ exists' \in BOOLEAN
    /\ UNCHANGED <<cfg, endpoint, req, pc, calls, replies, responses, Locals>>

-----------------------------------------------------------------------------
Next ==
    \/ AiReceive
    \/ AiPipelineReturn
    \/ AiChatReturn
    \/ Ai0Receive
    \/ Ai0ChatReturn
    \/ GenerateReceive
    \/ GenerateReadReturn
    \/ GenerateLLMReturn
    \/ SaveReceive
    \/ SaveRefsReturn
    \/ SavePushReturn
    \/ SaveRefs2Return
    \/ SavePush2Return
    \/ OtherWriterPush

Spec == Init /\ [][Next]_vars

-----------------------------------------------------------------------------
(* Vocabulary of the properties *)

Done == pc = "done"

HasKey(body, k) == k \in DOMAIN body

\* the prompt begins with the nine characters of "/specify."
BeginsWithSpecify(s) ==
    /\ Len(s) >= 9
    /\ \A i \in 1..9 : s[i] = SpecifyPrefix[i]

\* positions of the '.' characters of s
Dots(s) == { i \in 1..Len(s) : s[i] = "." }

FirstDot(s) == CHOOSE i \in Dots(s) : \A j \in Dots(s) : i <= j

\* position of the second '.', or one past the end when there is none
SecondDot(s) ==
    LET later == { i \in Dots(s) : i > FirstDot(s) }
    IN  IF later = {} THEN Len(s) + 1
        ELSE CHOOSE i \in later : \A j \in later : i <= j

\* the text between the first and the second '.' (the remainder without a second)
BetweenDots(s) == SubSeq(s, FirstDot(s) + 1, SecondDot(s) - 1)

Contains(s, sub) ==
    \E i \in 0..(Len(s) - Len(sub)) : SubSeq(s, i + 1, i + Len(sub)) = sub

\* the request lacks a field its endpoint requires
LacksRequired ==
    \/ endpoint \in {"ai", "ai0"}
       /\ (req.prompt.t = "undefined" \/ req.prompt = Str(<< >>))
    \/ endpoint = "generate"
       /\ \/ req.command.t = "undefined" \/ req.command = Str(<< >>)
          \/ req.prompt.t = "undefined" \/ req.prompt = Str(<< >>)
    \/ endpoint = "save"
       /\ \/ req.path.t = "undefined" \/ req.path = Str(<< >>)
          \/ req.content.t # "string"

\* the upstream answered call i with a status outside 2xx
NonOk(i) == replies[i].kind = "response" /\ ~Ok(replies[i].status)

\* the upstream answered call i with 2xx
Accepted(i) == replies[i].kind = "response" /\ Ok(replies[i].status)

ErrorEnvelope(r) == r.status \in {400, 500} /\ HasKey(r.body, "error")

SuccessShape(r) ==
    /\ r.status = 200
    /\ DOMAIN r.body \in { {"output"}, {"output", "pipelineRunId"}, {"success", "push"} }

PushIdx(changeType) ==
    { i \in DOMAIN calls : calls[i].client = "pushes" /\ calls[i].changeType = changeType }

\* the add push at position i was answered "already exists"
AddRefusedAsExisting(i) ==
    /\ i \in PushIdx("add")
    /\ i \in DOMAIN replies
    /\ NonOk(i)
    /\ replies[i].body.message = MsgExists

\* the second refs lookup (position i) returned the branch head
RefsGaveHead(i) == Accepted(i) /\ replies[i].body.list = "list"

SamePayload(a, b) ==
    a.path = b.path /\ a.content = b.content /\ a.comment = b.comment

-----------------------------------------------------------------------------
(* C1 *)

\* C1: a POST /api/ai request whose prompt is a non-empty string that does not
\* start with "/specify." issues exactly one upstream call, the chat completion
\* carrying that prompt as its single user message, and never a pipeline or
\* repo call, in every state of the handler (error paths included).
C1_PlainPromptOnlyChat ==
    ( /\ endpoint \in {"ai", "ai0"}
      /\ IsString(req.prompt)
      /\ req.prompt.s # << >>
      /\ ~BeginsWithSpecify(req.prompt.s) )
    => /\ Len(calls) = 1
       /\ calls[1].client = "chat"
       /\ calls[1].messages = <<UserMessage(req.prompt)>>

C1_Witness ==
    /\ endpoint = "ai"
    /\ Done
    /\ req.prompt = Str(<<"a">> \o SpecifyPrefix)
    /\ Len(calls) = 1
    /\ calls[1].client = "chat"
    /\ responses[1].status = 500

-----------------------------------------------------------------------------
(* C2 *)

\* C2: a request that lacks its required fields (POST /api/ai without a
\* non-empty prompt, POST /generate without command or prompt, POST /save
\* without path or with non-string content) is answered 400 at once, and no
\* upstream call is ever issued for it.
C2_MissingFields400NoCall ==
    LacksRequired
    => /\ Done
       /\ calls = << >>
       /\ replies = << >>
       /\ Len(responses) = 1
       /\ responses[1].status = 400
       /\ HasKey(responses[1].body, "error")

C2_Witness ==
    /\ endpoint = "save"
    /\ req.path = Str(PathA)
    /\ req.content = Num
    /\ Done
    /\ responses[1].status = 400
    /\ calls = << >>

-----------------------------------------------------------------------------
(* C3 *)

\* C3: once the handler has finished, every upstream answer with a status
\* outside 2xx, from any client on any endpoint, has produced a 500 response
\* with `error` set and the upstream body under `details` (an upstream body
\* that is not JSON has no value to carry).
C3_NonOkGives500WithDetails ==
    Done =>
        \A i \in DOMAIN replies :
            NonOk(i) =>
                /\ Len(responses) = 1
                /\ responses[1].status = 500
                /\ HasKey(responses[1].body, "error")
                /\ HasKey(responses[1].body, "details")
                /\ \/ HasKey(replies[i].body, "json") /\ ~replies[i].body.json
                   \/ responses[1].body.details = replies[i].body

-----------------------------------------------------------------------------
(* C4 *)

\* C4 as stated: when the add push is refused as already existing, exactly one
\* edit push follows with the same path, content and commit message, and it is
\* the last call; any other failure of the add push ends the request with no
\* further call.
C4_RetryExactlyOnce ==
    (endpoint = "save" /\ Done) =>
        \A i \in PushIdx("add") :
            /\ AddRefusedAsExisting(i)
               => /\ Cardinality(PushIdx("edit")) = 1
                  /\ \A j \in PushIdx("edit") :
                        j = Len(calls) /\ j > i /\ SamePayload(calls[i], calls[j])
            /\ ~AddRefusedAsExisting(i) => Len(calls) = i

\* C4 as amended: when the add push is refused as already existing, the branch
\* head is looked up again; if that lookup returns a head, exactly one edit push
\* follows, built on that head, with the same path, content and commit message,
\* and nothing is called after it whether it succeeds or fails; if the lookup
\* fails or returns no ref, no edit push is made and the request fails with 500.
\* Any other failure of the add push ends the request with 500 and no retry.
C4_RetryOnceAfterRefsLookup ==
    endpoint = "save" =>
        /\ Cardinality(PushIdx("add")) <= 1
        /\ Cardinality(PushIdx("edit")) <= 1
        /\ \A j \in PushIdx("edit") :
              /\ j = Len(calls)
              /\ j \in DOMAIN replies => Done
        /\ \A i \in PushIdx("add") \cap DOMAIN replies :
              IF AddRefusedAsExisting(i)
              THEN /\ Len(calls) >= i + 1
                   /\ calls[i + 1] = RefsCall
                   /\ (i + 1) \in DOMAIN replies =>
                        IF RefsGaveHead(i + 1)
                        THEN /\ Len(calls) = i + 2
                             /\ PushIdx("edit") = {i + 2}
                             /\ SamePayload(calls[i], calls[i + 2])
                             /\ calls[i + 2].oldObjectId = replies[i + 1].head
                        ELSE /\ Len(calls) = i + 1
                             /\ PushIdx("edit") = {}
                             /\ Done
                             /\ responses[1].status = 500
              ELSE /\ Len(calls) = i
                   /\ Done
                   /\ responses[1].status = (IF Accepted(i) THEN 200 ELSE 500)

C4_Witness ==
    /\ endpoint = "save"
    /\ Done
    /\ \E i \in PushIdx("add") : AddRefusedAsExisting(i)
    /\ \E j \in PushIdx("edit") :
          /\ Accepted(j)
          /\ calls[j].comment = <<"my commit">>
    /\ responses[1].status = 200

-----------------------------------------------------------------------------
(* C5 *)

\* C5: a push that reaches the repository after the branch head has moved away
\* from the oldObjectId it was built on (the add attempt or the edit retry) is
\* refused, and POST /save answers it with a 500 error and never with
\* {success: true}.
C5_StalePushIsAnError ==
    endpoint = "save" =>
        \A i \in DOMAIN replies :
            (calls[i].client = "pushes" /\ calls[i].oldObjectId # replies[i].head)
            => /\ ~Accepted(i)
               /\ Done
               /\ Len(responses) = 1
               /\ responses[1].status = 500
               /\ HasKey(responses[1].body, "error")
               /\ ~HasKey(responses[1].body, "success")

C5_Witness ==
    /\ endpoint = "save"
    /\ Done
    /\ \E i \in PushIdx("edit") \cap DOMAIN replies :
          calls[i].oldObjectId # replies[i].head
    /\ responses[1].status = 500

-----------------------------------------------------------------------------
(* C6 *)

\* C6: in POST /generate, a repo read that fails with anything other than 404
\* ends the request with a 500 error: no chat-completion call is made and no
\* {output} response is sent.
C6_ReadFailureAborts ==
    endpoint = "generate" =>
        \A i \in DOMAIN replies :
            ( /\ replies[i].client = "items"
              /\ \/ replies[i].kind = "network"
                 \/ NonOk(i) /\ replies[i].status # 404 )
            => /\ Done
               /\ responses[1].status = 500
               /\ \A k \in DOMAIN calls : calls[k].client # "chat"

-----------------------------------------------------------------------------
(* C7 *)

\* C7: in POST /generate, a repo read answered 404 is no error:
\* getFileContentFromRepo returns null for it, the handler records the empty
\* string for that file, goes on to read the remaining files in order, and,
\* with the provider configured, sends the composite prompt (the file shown as
\* "(empty)") to the chat-completion client.
C7_NotFoundReadsAsEmpty ==
    endpoint = "generate" =>
        /\ \A k \in DOMAIN calls :
              k <= Len(fileCandidates) => calls[k] = ItemsCall(fileCandidates[k])
        /\ \A i \in DOMAIN replies :
              (replies[i].client = "items" /\ NonOk(i) /\ replies[i].status = 404)
              => LET name == StripSlashes(fileCandidates[i])
                     last == \A j \in (i + 1)..Len(fileCandidates) :
                                StripSlashes(fileCandidates[j]) # name
                 IN  /\ readResults[i] = Returned(Null)
                     /\ Len(replies) = i
                        => \E e \in DOMAIN repoFiles :
                              repoFiles[e] = [name |-> name, content |-> << >>]
                     /\ Len(calls) >= i + 1 \/ (Done /\ LLMConfigError(cfg) # "none")
                     /\ (i < Len(fileCandidates)) => calls[i + 1].client = "items"
                     /\ (Len(calls) > Len(fileCandidates))
                        => LET c == calls[Len(fileCandidates) + 1]
                           IN  /\ c.client = "chat"
                               /\ c.messages[2].role = "user"
                               /\ c.messages[2].content
                                    = Str(BuildSpeckitPrompt(
                                            req.command.s \o <<": ">> \o req.prompt.s,
                                            repoFiles))
                               /\ last => Contains(c.messages[2].content.s,
                                                   <<"--- BEGIN FILE: ">> \o name
                                                   \o <<" ---\n", "(empty)">>)

C7_Witness ==
    /\ endpoint = "generate"
    /\ Done
    /\ Len(fileCandidates) = 2
    /\ replies[1].client = "items" /\ replies[1].status = 404
    /\ replies[2].client = "items" /\ replies[2].status = 200
    /\ Len(calls) = 3
    /\ calls[3].client = "chat"
    /\ responses[1].status = 200

-----------------------------------------------------------------------------
(* C8 *)

\* C8: when the chat-completion upstream answers 2xx with a JSON body that has
\* no choices (missing or an empty list), the client receives a success
\* response whose output is the empty string, on every chat-completion path.
C8_NoChoicesGivesEmptyOutput ==
    Done =>
        \A i \in DOMAIN replies :
            ( /\ replies[i].client = "chat"
              /\ Accepted(i)
              /\ replies[i].body.json
              /\ replies[i].body.choices \in {"missing", "empty"} )
            => /\ responses[1].status = 200
               /\ HasKey(responses[1].body, "output")
               /\ responses[1].body.output = << >>

-----------------------------------------------------------------------------
(* C9 *)

\* C9: for a prompt that starts with "/specify.", the pipeline call carries the
\* branch ref refs/heads/main and, as specStep, the text between the first and
\* the second '.' of the prompt (the remainder when there is no second '.',
\* the empty string for "/specify." alone), it is the only upstream call, and
\* a successful response echoes "Pipeline triggered for step: <step>".
C9_StepIsTextBetweenDots ==
    ( /\ endpoint = "ai"
      /\ IsString(req.prompt)
      /\ BeginsWithSpecify(req.prompt.s) )
    => /\ Len(calls) = 1
       /\ calls[1].client = "pipeline"
       /\ calls[1].ref = "refs/heads/main"
       /\ calls[1].specStep = Str(BetweenDots(req.prompt.s))
       /\ (Done /\ responses[1].status = 200)
          => responses[1].body.output
                = <<"Pipeline triggered for step: ">> \o BetweenDots(req.prompt.s)

C9_Witness ==
    /\ endpoint = "ai"
    /\ Done
    /\ req.prompt = Str(SpecifyPrefix)
    /\ calls = << PipelineCall(Str(<< >>)) >>
    /\ responses[1].status = 200
    /\ responses[1].body.output = <<"Pipeline triggered for step: ">>

-----------------------------------------------------------------------------
(* C10 *)

\* the handler's continuation at each await point
HandlerStep ==
    \/ AiPipelineReturn
    \/ AiChatReturn
    \/ Ai0ChatReturn
    \/ GenerateReadReturn
    \/ GenerateLLMReturn
    \/ SaveRefsReturn
    \/ SavePushReturn
    \/ SaveRefs2Return
    \/ SavePush2Return

\* C10: every request gets exactly one response: none is sent before the
\* handler finishes, the handler can always continue from an await point, and
\* when it has finished exactly one response has been sent, which is either a
\* success shape at 200 or an error envelope with `error` set at 400 or 500.
C10_ExactlyOneResponse ==
    /\ Len(responses) <= 1
    /\ Done <=> Len(responses) = 1
    /\ pc \notin {"idle", "done"} => ENABLED HandlerStep
    /\ Done => SuccessShape(responses[1]) \/ ErrorEnvelope(responses[1])

C10_Witness ==
    /\ endpoint = "generate"
    /\ Done
    /\ Len(replies) >= 2
    /\ replies[Len(replies)].client = "chat"
    /\ replies[Len(replies)].kind = "reject"
    /\ Len(responses) = 1
    /\ ErrorEnvelope(responses[1])

====
